---- MODULE Spec2Model ----
(***************************************************************************)
(* Model of src/app.py: the LangGraph agent loop (Agent.run, the           *)
(* operator.add reducer of AgentState, and create_graph.should_continue).  *)
(*                                                                         *)
(* Python values are modelled as follows.                                  *)
(*   Optional[str]   the empty tuple for None, a 1-tuple <<s>> for a str   *)
(*   f-strings       the tuple of their fragments (literal text and        *)
(*                   interpolated values), so "content contains the name"  *)
(*                   is membership of the name among the fragments         *)
(*   messages        records tagged by type: "human", "ai", "function"     *)
(* The Russian literals of the source are written in ASCII.                *)
(***************************************************************************)
EXTENDS Integers, Sequences, FiniteSets, TLC

VARIABLES
  messages,         \* state["messages"] of the graph
  node,             \* the node the graph runs next: "agent" or END
  raised,           \* the exception that ended the graph run, None if none
  response,         \* Agent.run's local `response` in the last step, None if
                    \* the model invocation did not return
  llm_input,        \* the messages passed to self.llm.invoke in the last step
  llm_invocations,  \* number of calls of self.llm.invoke
  tool_log          \* the runs of the tool executable, in order

vars == <<messages, node, raised, response, llm_input, llm_invocations, tool_log>>

\* ------------------------------------------------------------------ bounds
\* Largest conversation (number of messages) the model explores.
MaxMsgs == 5

\* Largest conversation before the final answer in the runs over RunInputs.
MaxRunMsgs == 7

\* Longest message list the conditional edge is applied to on its own.
MaxTrail == 3

\* ------------------------------------------------------- Python primitives
None == <<>>

Some(s) == <<s>>

\* Python truthiness of an Optional[str]: None and "" are falsy.
Truthy(v) == v # None /\ v[1] # ""

\* repr() of an Optional[str] inside the repr of a dict.
Repr(v) == IF v = None THEN <<"None">> ELSE <<"'", v[1], "'">>

\* s is one of the fragments of the formatted text.
Contains(text, s) == \E i \in 1..Len(text) : text[i] = s

IsPrefix(s, t) == Len(s) <= Len(t) /\ SubSeq(t, 1, Len(s)) = s

\* --------------------------------------------------------- module globals
\* The names bound at module level of app.py and the kind of object bound.
Globals ==
  [ datetime |-> "module", operator |-> "module", json |-> "module",
    os |-> "module", Annotated |-> "object", Sequence |-> "object",
    TypedDict |-> "function", AIMessage |-> "class", BaseMessage |-> "class",
    FunctionMessage |-> "class", HumanMessage |-> "class",
    tool |-> "function", ChatGoogleGenerativeAI |-> "class",
    END |-> "str", StateGraph |-> "class", load_dotenv |-> "function",
    get_current_time |-> "StructuredTool", AgentState |-> "class",
    Agent |-> "class", create_graph |-> "function", app |-> "object" ]

\* globals().get(tool_name)
globals_get(tool_name) ==
  IF tool_name \in DOMAIN Globals THEN Some(Globals[tool_name]) ELSE None

\* callable(tool_function)
callable(tool_function) ==
  tool_function # None /\ tool_function[1] \in {"StructuredTool", "class", "function"}

\* ------------------------------------------------------------------ inputs
\* What the model can put in a tool call: key absent/None, empty, the
\* registered tool, a name bound to nothing, a callable global that is no
\* tool.
ToolNames == {None, Some(""), Some("get_current_time"), Some("nonexistent_tool"),
              Some("Agent")}

ToolIds == {None, Some(""), Some("call_1"), Some("call_2")}

EmptyArgs == "{}"

ToolCalls == [name : ToolNames, args : {Some(EmptyArgs)}, id : ToolIds]

\* Wall-clock readings of get_current_time.
Clock == {"2025-05-21T06:42:00Z", "2025-05-21T06:42:01Z"}

\* What happens when the tool executable runs: it returns, or it raises.
NotRun == [kind |-> "not_run"]

Outcomes == {[kind |-> "returns", utc |-> t] : t \in Clock}
              \cup {[kind |-> "raises", class |-> "OSError", text |-> "clock failure"]}

\* The call reaches tool_function.invoke of the registered tool.
ReachesTool(c) ==
  /\ Truthy(c.name) /\ Truthy(c.id)
  /\ globals_get(c.name[1]) = Some("StructuredTool")

\* A tool call together with what the world does when it is executed.
Inputs ==
  {[call |-> c, out |-> o] : c \in {d \in ToolCalls : ReachesTool(d)}, o \in Outcomes}
    \cup {[call |-> c, out |-> NotRun] : c \in {d \in ToolCalls : ~ReachesTool(d)}}

\* ---------------------------------------------------------------- messages
HumanMessage(content) == [type |-> "human", content |-> content]

AIMessage(content, tool_calls) ==
  [type |-> "ai", content |-> content, tool_calls |-> tool_calls]

FunctionMessage(content, name, tool_call_id) ==
  [type |-> "function", content |-> content, name |-> name,
   tool_call_id |-> tool_call_id]

\* str(tool_call_data): the repr of the tool-call dict.
DictRepr(tool_call_data) ==
  <<"{'name': ">> \o Repr(tool_call_data.name) \o <<", 'args': ", tool_call_data.args[1]>>
    \o <<", 'id': ">> \o Repr(tool_call_data.id) \o <<"}">>

\* -------------------------------------------------------------- time tool
\* get_current_time(): the dict {"utc": <reading>}.
get_current_time(reading) == [utc |-> reading]

\* json.dumps of the tool's dict.
json_dumps(tool_output) == <<"{", "\"utc\"", ": ", "\"", tool_output.utc, "\"", "}">>

\* An except clause that names AttributeError only.
ExceptionSubclasses_attributeErrorOnly == {"AttributeError"}

\* Classes that `except Exception` catches.
ExceptionSubclasses == {"Exception", "AttributeError", "TypeError", "OSError"}

\* tool_function.invoke(tool_args): the registered tool runs the executable;
\* any other callable global has no usable invoke attribute.
tool_invoke(tool_function, tool_args, out) ==
  IF tool_function = Some("StructuredTool")
  THEN IF out.kind = "returns"
       THEN [exc |-> None, value |-> Some(get_current_time(out.utc)), ran |-> TRUE]
       ELSE [exc |-> Some([class |-> out.class, text |-> out.text]), value |-> None, ran |-> TRUE]
  ELSE [exc |-> Some([class |-> "AttributeError", text |-> "no attribute 'invoke'"]),
        value |-> None, ran |-> FALSE]

\* ------------------------------------------------------------- Agent.run
\* InvalidCallMessage with both identifiers replaced as soon as one is missing.
InvalidCallMessage_bothPlaceholders(tool_call_data) ==
  [type |-> "function",
   content |-> <<"Invalid tool call data (name or id missing): ">> \o DictRepr(tool_call_data),
   name |-> "unknown_tool_name_in_error",
   tool_call_id |-> "unknown_tool_call_id_in_error"]

\* Lines 62-73: the message for a call that lacks a name or an id.
InvalidCallMessage(tool_call_data) ==
  LET tool_name == tool_call_data.name
      tool_id == tool_call_data.id
      error_msg == <<"Invalid tool call data (name or id missing): ">> \o DictRepr(tool_call_data)
      fn_name == IF Truthy(tool_name) THEN tool_name[1] ELSE "unknown_tool_name_in_error"
      fn_tool_call_id == IF Truthy(tool_id) THEN tool_id[1] ELSE "unknown_tool_call_id_in_error"
  IN FunctionMessage(error_msg, fn_name, fn_tool_call_id)

\* Lines 79-84: r is what tool_function.invoke did. When it returned, the
\* message with the JSON text is appended; when it raised, the exception
\* leaves the try block.
AfterInvoke(tool_name, tool_id, r) ==
  IF r.exc = None
  THEN [exc |-> None,
        appended |-> <<FunctionMessage(json_dumps(r.value[1]), tool_name, tool_id)>>,
        ran |-> r.ran, value |-> r.value]
  ELSE [exc |-> r.exc, appended |-> <<>>, ran |-> r.ran, value |-> None]

\* Lines 87-88: the message for a name that is not bound to a callable.
NotFoundMessage(tool_name, tool_id) ==
  FunctionMessage(<<"Error: tool named '", tool_name, "' not found or is not a function.">>,
                  tool_name, tool_id)

\* TryBlock whose not-found branch only logs and appends no message.
TryBlock_silentNotFound(tool_name, tool_args, tool_id, out) ==
  IF callable(globals_get(tool_name))
  THEN AfterInvoke(tool_name, tool_id, tool_invoke(globals_get(tool_name), tool_args, out))
  ELSE [exc |-> None, appended |-> <<>>, ran |-> FALSE, value |-> None]

\* Lines 76-89: the body of the try block. exc is the exception that left
\* the block (None when it ran to its end), appended what it added to
\* tool_messages, ran whether the tool executable was entered.
TryBlock(tool_name, tool_args, tool_id, out) ==
  IF callable(globals_get(tool_name))
  THEN AfterInvoke(tool_name, tool_id, tool_invoke(globals_get(tool_name), tool_args, out))
  ELSE [exc |-> None, appended |-> <<NotFoundMessage(tool_name, tool_id)>>,
        ran |-> FALSE, value |-> None]

\* ExceptClause whose text leaves out the tool name.
ExceptClause_noName(tool_name, tool_id, e) ==
  FunctionMessage(<<"Error while executing tool: ", e.text>>, tool_name, tool_id)

\* ExceptClause that answers under the placeholder id.
ExceptClause_placeholderId(tool_name, tool_id, e) ==
  FunctionMessage(<<"Error while executing tool ", tool_name, ": ", e.text>>,
                  tool_name, "unknown_tool_call_id_in_error")

\* Lines 91-95: the except clause.
ExceptClause(tool_name, tool_id, e) ==
  FunctionMessage(<<"Error while executing tool ", tool_name, ": ", e.text>>,
                  tool_name, tool_id)

\* ToolRun for a body that calls tool_function.invoke a second time.
ToolRun_twice(tool_name, tool_args, tool_id, t) ==
  IF t.ran
  THEN <<[name |-> tool_name, args |-> tool_args, id |-> tool_id, value |-> t.value],
         [name |-> tool_name, args |-> tool_args, id |-> tool_id, value |-> t.value]>>
  ELSE <<>>

\* The record of a run of the tool executable (line 79), if it was entered.
ToolRun(tool_name, tool_args, tool_id, t) ==
  IF t.ran
  THEN <<[name |-> tool_name, args |-> tool_args, id |-> tool_id, value |-> t.value]>>
  ELSE <<>>

\* Lines 75-95: the try statement, t being what its try block did: an
\* exception of the Exception hierarchy is handled by the except clause, any
\* other one leaves the iteration.
TryStatement(tool_name, tool_args, tool_id, t) ==
  IF t.exc = None
  THEN [raised |-> None, appended |-> t.appended,
        log |-> ToolRun(tool_name, tool_args, tool_id, t)]
  ELSE IF t.exc[1].class \in ExceptionSubclasses
       THEN [raised |-> None,
             appended |-> t.appended \o <<ExceptClause(tool_name, tool_id, t.exc[1])>>,
             log |-> ToolRun(tool_name, tool_args, tool_id, t)]
       ELSE [raised |-> t.exc, appended |-> t.appended,
             log |-> ToolRun(tool_name, tool_args, tool_id, t)]

\* Line 58: tool_call_data.get('args', {})
ArgsOf(tool_call_data) ==
  IF tool_call_data.args = None THEN EmptyArgs ELSE tool_call_data.args[1]

\* LoopBody that skips an invalid call without appending a message.
LoopBody_skipInvalid(tool_call_data, out) ==
  IF ~Truthy(tool_call_data.name) \/ ~Truthy(tool_call_data.id)
  THEN [raised |-> None, appended |-> <<>>, log |-> <<>>]
  ELSE TryStatement(tool_call_data.name[1], ArgsOf(tool_call_data), tool_call_data.id[1],
                    TryBlock(tool_call_data.name[1], ArgsOf(tool_call_data),
                             tool_call_data.id[1], out))

\* Lines 57-95: one iteration of the for loop. raised is the exception that
\* leaves the iteration, appended what it adds to tool_messages, log what the
\* tool executable did.
LoopBody(tool_call_data, out) ==
  IF ~Truthy(tool_call_data.name) \/ ~Truthy(tool_call_data.id)
  THEN [raised |-> None, appended |-> <<InvalidCallMessage(tool_call_data)>>, log |-> <<>>]
  ELSE TryStatement(tool_call_data.name[1], ArgsOf(tool_call_data), tool_call_data.id[1],
                    TryBlock(tool_call_data.name[1], ArgsOf(tool_call_data),
                             tool_call_data.id[1], out))

\* Line 54: tool_messages = []
NoToolMessages == [raised |-> None, tool_messages |-> <<>>, log |-> <<>>]

\* Accumulate that inserts each result at the front of tool_messages.
Accumulate_prepend(acc, i, b) ==
  [raised |-> b.raised,
   tool_messages |-> b.appended \o acc.tool_messages,
   log |-> acc.log \o [j \in 1..Len(b.log) |-> [pos |-> i] @@ b.log[j]]]

\* The effect b of iteration i on the loop's state: tool_messages.append.
Accumulate(acc, i, b) ==
  [raised |-> b.raised,
   tool_messages |-> acc.tool_messages \o b.appended,
   log |-> acc.log \o [j \in 1..Len(b.log) |-> [pos |-> i] @@ b.log[j]]]

\* ForLoop that leaves the loop after the first error result.
RECURSIVE ForLoop_breakOnFailure(_, _, _, _)
ForLoop_breakOnFailure(tool_calls, outs, i, acc) ==
  IF \/ i > Len(tool_calls)
     \/ acc.raised # None
     \/ /\ acc.tool_messages # <<>>
        /\ acc.tool_messages[Len(acc.tool_messages)].content[1] # "{"
  THEN acc
  ELSE ForLoop_breakOnFailure(tool_calls, outs, i + 1,
                              Accumulate(acc, i, LoopBody(tool_calls[i], outs[i])))

\* Lines 54-95: the for loop over response.tool_calls, from position i on.
\* An exception leaving an iteration ends the loop.
RECURSIVE ForLoop(_, _, _, _)
ForLoop(tool_calls, outs, i, acc) ==
  IF i > Len(tool_calls) \/ acc.raised # None
  THEN acc
  ELSE ForLoop(tool_calls, outs, i + 1,
               Accumulate(acc, i, LoopBody(tool_calls[i], outs[i])))

\* What self.llm.invoke can do: return a response, or raise.
LlmReturns(resp) == [exc |-> None, response |-> Some(resp)]

LlmRaises == [exc |-> Some([class |-> "ModelInvocationError", text |-> "model call failed"]),
              response |-> None]

\* ReturnAfterLoop that returns tool_messages without the response.
ReturnAfterLoop_dropResponse(resp, l) ==
  IF l.raised # None
  THEN [raised |-> l.raised, update |-> <<>>, log |-> l.log, invoked |-> 1]
  ELSE [raised |-> None, update |-> l.tool_messages, log |-> l.log, invoked |-> 1]

\* ReturnAfterLoop that returns the response and leaves the results for later.
ReturnAfterLoop_responseOnly(resp, l) ==
  IF l.raised # None
  THEN [raised |-> l.raised, update |-> <<>>, log |-> l.log, invoked |-> 1]
  ELSE [raised |-> None, update |-> <<resp>>, log |-> l.log, invoked |-> 1]

\* Line 97: the return after the loop l, unless an exception left the loop.
ReturnAfterLoop(resp, l) ==
  IF l.raised # None
  THEN [raised |-> l.raised, update |-> <<>>, log |-> l.log, invoked |-> 1]
  ELSE [raised |-> None, update |-> <<resp>> \o l.tool_messages, log |-> l.log,
        invoked |-> 1]

\* Agent.run that catches a failed model call and answers with an error text.
Agent_run_swallowModelError(state, llm, outs) ==
  [sent |-> state.messages] @@
  IF llm.exc # None
  THEN [raised |-> None, update |-> <<AIMessage(llm.exc[1].text, <<>>)>>,
        log |-> <<>>, invoked |-> 1]
  ELSE IF Len(llm.response[1].tool_calls) > 0
       THEN ReturnAfterLoop(llm.response[1],
                            ForLoop(llm.response[1].tool_calls, outs, 1, NoToolMessages))
       ELSE [raised |-> None, update |-> <<llm.response[1]>>, log |-> <<>>, invoked |-> 1]

\* Agent.run that passes only the last message to the model.
Agent_run_sendLast(state, llm, outs) ==
  [sent |-> SubSeq(state.messages, Len(state.messages), Len(state.messages))] @@
  IF llm.exc # None
  THEN [raised |-> llm.exc, update |-> <<>>, log |-> <<>>, invoked |-> 1]
  ELSE IF Len(llm.response[1].tool_calls) > 0
       THEN ReturnAfterLoop(llm.response[1],
                            ForLoop(llm.response[1].tool_calls, outs, 1, NoToolMessages))
       ELSE [raised |-> None, update |-> <<llm.response[1]>>, log |-> <<>>, invoked |-> 1]

\* Lines 49-100: Agent.run on state. llm is what self.llm.invoke does, outs
\* what the tool executable does at each position. sent is current_messages,
\* the argument of self.llm.invoke; update is the returned {"messages": ...},
\* raised the exception leaving run, invoked the number of calls of
\* self.llm.invoke.
Agent_run(state, llm, outs) ==
  [sent |-> state.messages] @@
  IF llm.exc # None
  THEN [raised |-> llm.exc, update |-> <<>>, log |-> <<>>, invoked |-> 1]
  ELSE IF Len(llm.response[1].tool_calls) > 0
       THEN ReturnAfterLoop(llm.response[1],
                            ForLoop(llm.response[1].tool_calls, outs, 1, NoToolMessages))
       ELSE [raised |-> None, update |-> <<llm.response[1]>>, log |-> <<>>, invoked |-> 1]

\* ------------------------------------------------------------- the graph
\* A reducer that replaces the value by the update.
operator_add_replace(current, update) == update

\* AgentState.messages is Annotated with operator.add: the update is
\* concatenated to the current value.
operator_add(current, update) == current \o update

END == "__end__"

\* should_continue that ends the run on a trailing FunctionMessage.
should_continue_endOnFunction(state_messages) ==
  LET last_message == state_messages[Len(state_messages)]
  IN IF last_message.type = "function" THEN END
     ELSE IF last_message.type = "ai"
          THEN IF Len(last_message.tool_calls) > 0 THEN "agent" ELSE END
          ELSE END

\* should_continue that never ends the run on an AIMessage.
should_continue_alwaysAgent(state_messages) ==
  LET last_message == state_messages[Len(state_messages)]
  IN IF last_message.type = "function" THEN "agent"
     ELSE IF last_message.type = "ai" THEN "agent" ELSE END

\* should_continue with a cap on the length of the conversation.
should_continue_capped(state_messages) ==
  LET last_message == state_messages[Len(state_messages)]
  IN IF Len(state_messages) >= 5 THEN END
     ELSE IF last_message.type = "function" THEN "agent"
     ELSE IF last_message.type = "ai"
          THEN IF Len(last_message.tool_calls) > 0 THEN "agent" ELSE END
          ELSE END

\* should_continue whose default is to loop.
should_continue_loopOnOther(state_messages) ==
  LET last_message == state_messages[Len(state_messages)]
  IN IF last_message.type = "function" THEN "agent"
     ELSE IF last_message.type = "ai"
          THEN IF Len(last_message.tool_calls) > 0 THEN "agent" ELSE END
          ELSE "agent"

\* create_graph.should_continue
should_continue(state_messages) ==
  LET last_message == state_messages[Len(state_messages)]
  IN IF last_message.type = "function" THEN "agent"
     ELSE IF last_message.type = "ai"
          THEN IF Len(last_message.tool_calls) > 0 THEN "agent" ELSE END
          ELSE END

Question == "What time is it?"

Init ==
  /\ messages = <<HumanMessage(Question)>>
  /\ node = "agent"
  /\ raised = None
  /\ response = None
  /\ llm_input = <<>>
  /\ llm_invocations = 0
  /\ tool_log = <<>>

\* The compiled graph after Agent.run ended with r: the reducer of AgentState
\* merges the update and the conditional edge picks the next node; an
\* exception leaving Agent.run ends the graph run.
AfterNode(llm, r) ==
  /\ response' = llm.response
  /\ llm_input' = r.sent
  /\ llm_invocations' = llm_invocations + r.invoked
  /\ tool_log' = tool_log \o [j \in 1..Len(r.log) |-> [msg |-> Len(messages) + 1] @@ r.log[j]]
  /\ raised' = r.raised
  /\ IF r.raised # None
     THEN UNCHANGED <<messages, node>>
     ELSE /\ messages' = operator_add(messages, r.update)
          /\ node' = should_continue(messages')

\* One run of the node "agent" in the compiled graph.
GraphStep(llm, outs) == AfterNode(llm, Agent_run([messages |-> messages], llm, outs))

\* The model answers with n tool calls drawn from inputs (a final answer when
\* n = 0), and the node "agent" runs on that answer.
ModelAnswers(inputs, n) ==
  \E inp \in [1..n -> inputs] :
    GraphStep(LlmReturns(AIMessage(IF n = 0 THEN "final answer" ELSE "",
                                   [i \in 1..n |-> inp[i].call])),
              [i \in 1..n |-> inp[i].out])

\* The node "agent" runs and the model answers, with a final answer (n = 0)
\* or with n tool calls.
AgentStep ==
  /\ node = "agent" /\ raised = None
  /\ Len(messages) < MaxMsgs
  /\ \E n \in 0..(MaxMsgs - Len(messages) - 1) : ModelAnswers(Inputs, n)

\* The node "agent" runs and self.llm.invoke raises.
AgentStepModelFails ==
  /\ node = "agent" /\ raised = None
  /\ GraphStep(LlmRaises, <<>>)

Next == AgentStep \/ AgentStepModelFails

Spec == Init /\ [][Next]_vars

\* ------------------------------------------- runs over a small alphabet
\* The call of the scenario: the time tool, with an id.
TimeCall == [name |-> Some("get_current_time"), args |-> Some(EmptyArgs),
             id |-> Some("call_1")]

\* A small choice of tool calls for longer runs: the time tool returning or
\* raising, a call without name and id, a call to a name bound to nothing.
RunInputs ==
  {x \in Inputs :
     /\ x.call \in {TimeCall,
                     [name |-> None, args |-> Some(EmptyArgs), id |-> None],
                     [name |-> Some("nonexistent_tool"), args |-> Some(EmptyArgs),
                      id |-> Some("call_2")]}
     /\ x.out.kind = "returns" => x.out.utc = "2025-05-21T06:42:00Z"}

\* The node "agent" runs and the model gives its final answer.
FinalAnswer ==
  /\ node = "agent" /\ raised = None
  /\ Len(messages) <= MaxRunMsgs
  /\ ModelAnswers(RunInputs, 0)

\* The node "agent" runs and the model asks for n >= 1 tools.
ToolRequest ==
  /\ node = "agent" /\ raised = None
  /\ \E n \in 1..(MaxRunMsgs - Len(messages) - 1) : ModelAnswers(RunInputs, n)

RunNext == FinalAnswer \/ ToolRequest \/ AgentStepModelFails

RunSpec == Init /\ [][RunNext]_vars

\* The compiled graph runs the scheduled node: a run does not stop while the
\* node "agent" is scheduled.
FairRunSpec == Init /\ [][RunNext]_vars /\ WF_vars(RunNext)

\* ------------------------------------- the conditional edge on its own
\* The kinds of message a list can end in: the three the graph produces and
\* one of another BaseMessage subclass.
ControllerMessages ==
  {HumanMessage(Question), AIMessage("final answer", <<>>), AIMessage("", <<TimeCall>>),
   FunctionMessage(json_dumps(get_current_time("2025-05-21T06:42:00Z")),
                   "get_current_time", "call_1"),
   [type |-> "system", content |-> "instructions"]}

ControllerInit ==
  /\ messages \in UNION {[1..n -> ControllerMessages] : n \in 1..MaxTrail}
  /\ node = "should_continue"
  /\ raised = None
  /\ response = None
  /\ llm_input = <<>>
  /\ llm_invocations = 0
  /\ tool_log = <<>>

\* The conditional edge is evaluated on the state.
Decide ==
  /\ node = "should_continue"
  /\ node' = should_continue(messages)
  /\ UNCHANGED <<messages, raised, response, llm_input, llm_invocations, tool_log>>

ControllerSpec == ControllerInit /\ [][Decide]_vars

\* ------------------------------------------------------------ properties
\* self.tools: the names of the registered tools.
tools == {"get_current_time"}

\* The first fragments of the three error texts of Agent.run.
ErrorPrefixes == {"Invalid tool call data (name or id missing): ",
                  "Error: tool named '", "Error while executing tool "}

IsErrorResult(m) == m.type = "function" /\ m.content[1] \in ErrorPrefixes

\* A step of the agent node has just been taken.
Stepped == llm_invocations' # llm_invocations

\* The model answered in the step just taken.
Answered == Stepped /\ response' # None

\* The runs of the tool executable logged for position i of message k.
RunsOf(log, k, i) == {j \in 1..Len(log) : log[j].msg = k /\ log[j].pos = i}

\* Position i of the assistant message k did not end in a successful run.
FailedCall(log, k, i) == \A j \in RunsOf(log, k, i) : log[j].value = None

IsValidCall(c) == Truthy(c.name) /\ Truthy(c.id)

AIIndices == {k \in 1..Len(messages) : messages[k].type = "ai"}

\* The index of the nearest assistant message before position p, 0 if none.
PrecedingAI(p) ==
  LET before == {k \in 1..(p - 1) : messages[k].type = "ai"}
  IN IF before = {} THEN 0 ELSE CHOOSE k \in before : \A l \in before : l <= k

\* C1: a step whose model response carries n >= 1 tool calls appends the
\* response and then exactly n function messages, whatever the calls are.
C1_OneResultPerCall ==
  [][(Answered /\ Len(response'[1].tool_calls) >= 1) =>
       LET n == Len(response'[1].tool_calls)
           at == Len(messages) + 1
       IN /\ Len(messages') = Len(messages) + 1 + n
          /\ SubSeq(messages', 1, Len(messages)) = messages
          /\ messages'[at] = response'[1]
          /\ \A j \in 1..n : messages'[at + j].type = "function"]_vars

\* A 3-call response mixing an invalid, an unresolvable and a raising call
\* has been answered by 3 function messages.
C1_Witness ==
  \E k \in AIIndices :
    LET calls == messages[k].tool_calls
    IN /\ Len(calls) = 3 /\ Len(messages) = k + 3
       /\ \E i \in 1..3 : ~IsValidCall(calls[i])
       /\ \E i \in 1..3 : IsValidCall(calls[i]) /\ calls[i].name = Some("nonexistent_tool")
       /\ \E i \in 1..3 : \E j \in RunsOf(tool_log, k, i) : tool_log[j].value = None
       /\ \A i \in 1..3 : messages[k + i].type = "function"

\* C2: the controller is at END exactly when the most recent assistant
\* message carries no tool calls, and it is at "agent" whenever the last
\* message is a function message.
C2_DoneIffNoToolCalls ==
  LET k == PrecedingAI(Len(messages) + 1)
  IN /\ (node = END) <=> (k # 0 /\ Len(messages[k].tool_calls) = 0)
     /\ messages[Len(messages)].type = "function" => node = "agent"

\* The run ended after a step with tool calls.
C2_Witness ==
  /\ node = END
  /\ \E k \in AIIndices : Len(messages[k].tool_calls) >= 1

\* C3: when the tool executable raises for a call with a name and an id, the
\* step returns, the controller goes on with "agent", and the message for that
\* call is an error result naming the tool and carrying the call's id.
C3_RaisingToolIsolated ==
  [][\A j \in (Len(tool_log) + 1)..Len(tool_log') :
       tool_log'[j].value = None =>
         LET e == tool_log'[j]
         IN /\ raised' = None
            /\ node' = "agent"
            /\ Len(messages') >= e.msg + e.pos
            /\ IsErrorResult(messages'[e.msg + e.pos])
            /\ Contains(messages'[e.msg + e.pos].content, e.name)
            /\ messages'[e.msg + e.pos].tool_call_id = e.id]_vars

\* The tool has raised in a step, and the run goes on.
C3_Witness ==
  /\ node = "agent" /\ raised = None
  /\ \E j \in 1..Len(tool_log) :
       /\ tool_log[j].value = None
       /\ IsErrorResult(messages[tool_log[j].msg + tool_log[j].pos])

\* C4: in one step, every call that reaches the registered tool and stands
\* after a call that failed is still run, once, and the step returns to the
\* controller.
C4_FailureDoesNotStopLaterCalls ==
  [][Answered =>
       LET calls == response'[1].tool_calls
           at == Len(messages) + 1
       IN \A i \in 1..Len(calls) : \A j \in (i + 1)..Len(calls) :
            (FailedCall(tool_log', at, i) /\ ReachesTool(calls[j])) =>
               /\ Cardinality(RunsOf(tool_log', at, j)) = 1
               /\ raised' = None
               /\ node' \in {"agent", END}]_vars

\* A call reached the tool after an earlier call of the same step failed.
C4_Witness ==
  \E k \in AIIndices :
    \E i \in 1..Len(messages[k].tool_calls) : \E j \in (i + 1)..Len(messages[k].tool_calls) :
      /\ FailedCall(tool_log, k, i)
      /\ RunsOf(tool_log, k, j) # {}

\* C5: a call whose name is non-empty and not a registered tool yields an
\* error result naming it; nothing is run for it and the step returns to the
\* controller.
C5_UnregisteredNameIsolated ==
  [][Answered =>
       LET calls == response'[1].tool_calls
           at == Len(messages) + 1
       IN \A i \in 1..Len(calls) :
            (Truthy(calls[i].name) /\ calls[i].name[1] \notin tools) =>
               /\ raised' = None
               /\ node' \in {"agent", END}
               /\ Len(messages') >= at + i
               /\ IsErrorResult(messages'[at + i])
               /\ Contains(messages'[at + i].content, calls[i].name[1])
               /\ RunsOf(tool_log', at, i) = {}]_vars

\* Calls to "nonexistent_tool" and to the non-tool global "Agent", both with
\* an id, have been answered.
C5_Witness ==
  \E k \in AIIndices :
    LET calls == messages[k].tool_calls
    IN /\ Len(messages) >= k + Len(calls)
       /\ \E i \in 1..Len(calls) :
            /\ calls[i].name = Some("nonexistent_tool") /\ Truthy(calls[i].id)
            /\ IsErrorResult(messages[k + i])
       /\ \E i \in 1..Len(calls) :
            /\ calls[i].name = Some("Agent") /\ Truthy(calls[i].id)
            /\ IsErrorResult(messages[k + i])

\* C6: the i-th message after an assistant message answers its i-th tool
\* call: it carries the name and id of a valid call, the text of an invalid
\* call, and the JSON text of the returned value when the tool returned.
C6_ResultsInCallOrder ==
  \A k \in AIIndices :
    \A i \in 1..Len(messages[k].tool_calls) :
      LET c == messages[k].tool_calls[i]
      IN /\ k + i <= Len(messages)
         /\ messages[k + i].type = "function"
         /\ IsValidCall(c) =>
              /\ messages[k + i].name = c.name[1]
              /\ messages[k + i].tool_call_id = c.id[1]
         /\ ~IsValidCall(c) =>
              SubSeq(messages[k + i].content, 2, Len(messages[k + i].content)) = DictRepr(c)
         /\ \A j \in RunsOf(tool_log, k, i) :
              tool_log[j].value # None =>
                messages[k + i].content =
                  <<"{", "\"utc\"", ": ", "\"", tool_log[j].value[1].utc, "\"", "}">>

\* A step answered three calls with different ids and names, one of them a
\* successful run of the tool.
C6_Witness ==
  \E k \in AIIndices :
    LET calls == messages[k].tool_calls
    IN /\ Len(calls) = 3 /\ Len(messages) = k + 3
       /\ calls[1].id # calls[2].id /\ calls[2].name # calls[3].name
       /\ \E i \in 1..3 : \E j \in RunsOf(tool_log, k, i) : tool_log[j].value # None
       /\ \E i \in 1..3 : ~IsValidCall(calls[i])

\* C7: every step leaves the messages it found as a prefix of the messages
\* it leaves.
C7_AppendOnly == [][IsPrefix(messages, messages')]_vars

\* A terminal step has been taken after a step with a failing call.
C7_Witness ==
  /\ node = END /\ Len(messages) >= 4
  /\ \E p \in 1..Len(messages) : IsErrorResult(messages[p])

\* C8 as stated: every function message carries the id of a tool call of the
\* nearest preceding assistant message.
C8_Original ==
  \A p \in 1..Len(messages) :
    messages[p].type = "function" =>
      LET k == PrecedingAI(p)
      IN /\ k # 0
         /\ \E i \in 1..Len(messages[k].tool_calls) :
              messages[k].tool_calls[i].id = Some(messages[p].tool_call_id)

\* C8 amended: every function message answers a tool call of the nearest
\* preceding assistant message; it carries that call's id when the id is
\* non-empty, and the placeholder id when it is missing or empty.
C8_IdOrPlaceholder ==
  \A p \in 1..Len(messages) :
    messages[p].type = "function" =>
      LET k == PrecedingAI(p)
      IN /\ k # 0
         /\ p - k <= Len(messages[k].tool_calls)
         /\ LET c == messages[k].tool_calls[p - k]
            IN IF Truthy(c.id)
               THEN messages[p].tool_call_id = c.id[1]
               ELSE messages[p].tool_call_id = "unknown_tool_call_id_in_error"

\* One step answered a call with an id and a call without one.
C8_Witness ==
  \E k \in AIIndices :
    LET calls == messages[k].tool_calls
    IN /\ Len(calls) >= 2 /\ Len(messages) >= k + 2
       /\ Truthy(calls[1].id) /\ messages[k + 1].tool_call_id = calls[1].id[1]
       /\ ~Truthy(calls[2].id)
       /\ messages[k + 2].tool_call_id = "unknown_tool_call_id_in_error"

\* C9: when the model invocation raises, that exception ends the run, the
\* model was invoked once in the step, no tool ran and no message was added.
C9_ModelFailurePropagates ==
  [][(Stepped /\ response' = None) =>
       /\ raised' = LlmRaises.exc
       /\ llm_invocations' = llm_invocations + 1
       /\ tool_log' = tool_log
       /\ messages' = messages
       /\ node' = node]_vars

\* The model invocation failed in a step that followed a step with tools.
C9_Witness ==
  /\ raised # None /\ response = None
  /\ llm_invocations = 2 /\ Len(tool_log) >= 1 /\ Len(messages) >= 3

\* C10: a call without a name or without an id does not abort the step and
\* runs nothing; its message is an error result in which each missing
\* identifier is the placeholder and each present one is the call's own.
C10_InvalidCallPlaceholders ==
  [][Answered =>
       LET calls == response'[1].tool_calls
           at == Len(messages) + 1
       IN \A i \in 1..Len(calls) :
            ~IsValidCall(calls[i]) =>
               /\ raised' = None
               /\ Len(messages') = at + Len(calls)
               /\ IsErrorResult(messages'[at + i])
               /\ messages'[at + i].name =
                    (IF calls[i].name \in {None, Some("")}
                     THEN "unknown_tool_name_in_error" ELSE calls[i].name[1])
               /\ messages'[at + i].tool_call_id =
                    (IF calls[i].id \in {None, Some("")}
                     THEN "unknown_tool_call_id_in_error" ELSE calls[i].id[1])
               /\ RunsOf(tool_log', at, i) = {}]_vars

\* A call with a name and no id and a call with an id and an empty name have
\* been answered, each keeping the identifier it had.
C10_Witness ==
  \E k \in AIIndices :
    LET calls == messages[k].tool_calls
    IN /\ Len(calls) >= 2 /\ Len(messages) >= k + 2
       /\ calls[1].name = Some("get_current_time") /\ calls[1].id = None
       /\ messages[k + 1].name = "get_current_time"
       /\ calls[2].name = Some("") /\ calls[2].id = Some("call_2")
       /\ messages[k + 2].tool_call_id = "call_2"

\* The number of tool calls in the assistant messages of msgs.
RECURSIVE TotalCalls(_)
TotalCalls(msgs) ==
  IF msgs = <<>> THEN 0
  ELSE (IF msgs[1].type = "ai" THEN Len(msgs[1].tool_calls) ELSE 0) + TotalCalls(Tail(msgs))

\* C11: when the first response is one call of the time tool the controller
\* goes on with "agent" on 3 messages, and when the second response is a
\* final answer it ends on the 4 messages human, ai with the call, function,
\* ai; a run that ends has 1 message, one per model response and one per
\* tool call.
C11_ScenarioAndCount ==
  /\ (llm_invocations = 1 /\ response = Some(AIMessage("", <<TimeCall>>))) =>
       /\ node = "agent" /\ raised = None
       /\ Len(messages) = 3
       /\ messages[2] = response[1] /\ messages[3].type = "function"
  /\ (llm_invocations = 2 /\ response = Some(AIMessage("final answer", <<>>))
        /\ Len(llm_input) >= 2 /\ llm_input[2] = AIMessage("", <<TimeCall>>)) =>
       /\ node = END
       /\ Len(messages) = 4
       /\ [i \in 1..4 |-> messages[i].type] = <<"human", "ai", "function", "ai">>
       /\ messages[2].tool_calls = <<TimeCall>> /\ messages[4].tool_calls = <<>>
  /\ node = END => Len(messages) = 1 + llm_invocations + TotalCalls(messages)

\* The scenario has run to its end: the time tool returned and the model
\* gave its final answer.
C11_Witness ==
  /\ node = END /\ llm_invocations = 2 /\ Len(messages) = 4
  /\ messages[2] = AIMessage("", <<TimeCall>>)
  /\ messages[3].content = json_dumps(get_current_time("2025-05-21T06:42:00Z"))

\* C12: a step whose response carries no tool call appends that response and
\* nothing else, runs no tool and moves the controller to END; from END no
\* step is taken.
C12_FinalAnswerIsTerminal ==
  [][/\ (Answered /\ Len(response'[1].tool_calls) = 0) =>
          /\ messages' = Append(messages, response'[1])
          /\ tool_log' = tool_log
          /\ raised' = None
          /\ node' = END
     /\ node # END]_vars

\* A final answer ended a run that had used tools.
C12_Witness ==
  /\ node = END /\ Len(messages) >= 4
  /\ response # None /\ response[1].tool_calls = <<>>
  /\ messages[Len(messages)] = response[1]

\* C13: the last message of the conversation is never an assistant message
\* with tool calls.
C13_NoTrailingToolCallMessage ==
  ~(/\ messages[Len(messages)].type = "ai"
    /\ Len(messages[Len(messages)].tool_calls) > 0)

\* The controller looks at the state left by a step with tool calls.
C13_Witness ==
  /\ raised = None /\ response # None /\ Len(response[1].tool_calls) >= 2
  /\ Len(messages) > Len(response[1].tool_calls)
  /\ messages[Len(messages) - Len(response[1].tool_calls)] = response[1]
  /\ messages[Len(messages)].type = "function"

\* Every assistant message of msgs is followed in msgs by one function
\* message per tool call.
AllAnswered(msgs) ==
  \A k \in 1..Len(msgs) :
    msgs[k].type = "ai" =>
      /\ k + Len(msgs[k].tool_calls) <= Len(msgs)
      /\ \A i \in 1..Len(msgs[k].tool_calls) : msgs[k + i].type = "function"

\* C14: each step invokes the model once, on exactly the conversation the
\* step before left, in which every tool call already has its result.
C14_ModelSeesFullHistory ==
  [][Stepped =>
       /\ llm_invocations' = llm_invocations + 1
       /\ llm_input' = messages
       /\ AllAnswered(llm_input')]_vars

\* The model was invoked a second time, on a conversation ending with the
\* results of the first step.
C14_Witness ==
  /\ llm_invocations = 2 /\ Len(llm_input) >= 4
  /\ llm_input[2].type = "ai"
  /\ llm_input[Len(llm_input)].type = "function"

\* C15: whatever the number of steps taken, after a response with tool calls
\* the controller is at "agent", not at END, and a further step with tool
\* calls can be taken as long as the explored length allows it.
C15_NoStepBound ==
  (response # None /\ Len(response[1].tool_calls) >= 1) =>
     /\ node = "agent" /\ raised = None
     /\ Len(messages) + 2 <= MaxRunMsgs => ENABLED ToolRequest

\* Three steps in a row asked for tools and the run goes on.
C15_Witness ==
  /\ llm_invocations = 3 /\ node = "agent" /\ raised = None
  /\ Cardinality(AIIndices) = 3
  /\ \A k \in AIIndices : Len(messages[k].tool_calls) >= 1

\* C16: applied to a list whose last message is neither a function message
\* nor an assistant message, should_continue gives END.
C16_OtherTrailingMessageEnds ==
  (node # "should_continue" /\ messages[Len(messages)].type \notin {"function", "ai"}) =>
     node = END

\* The conditional edge was evaluated on a list ending in a human message.
C16_Witness ==
  /\ node = END /\ Len(messages) >= 2
  /\ messages[Len(messages)].type = "human"

\* C17: in a run in which the model invocation never fails, the controller
\* eventually is at END, whatever tool calls failed on the way; and once it
\* is at END the messages no longer change.
C17_EventuallyDone ==
  /\ [](raised # LlmRaises.exc) => <>(node = END)
  /\ [][node = END => messages' = messages]_vars

\* A run reached END after steps in which a call was invalid, a name was
\* bound to nothing and the tool raised.
C17_Witness ==
  /\ node = END
  /\ \E j \in 1..Len(tool_log) : tool_log[j].value = None
  /\ \E p \in 1..Len(messages) :
       messages[p].type = "function" /\ messages[p].name = "unknown_tool_name_in_error"
  /\ \E p \in 1..Len(messages) :
       messages[p].type = "function" /\ messages[p].name = "nonexistent_tool"

\* C18: the conversation starts with the human message and continues with
\* blocks of one assistant message followed by exactly one function message
\* per tool call; no function message stands outside such a block.
C18_BlockStructure ==
  /\ messages[1].type = "human"
  /\ \A p \in 2..Len(messages) : messages[p].type \in {"ai", "function"}
  /\ \A k \in AIIndices :
       LET n == Len(messages[k].tool_calls)
       IN /\ k + n <= Len(messages)
          /\ \A i \in 1..n : messages[k + i].type = "function"
          /\ k + n < Len(messages) => messages[k + n + 1].type = "ai"
  /\ \A p \in 1..Len(messages) :
       messages[p].type = "function" =>
         /\ PrecedingAI(p) # 0
         /\ p - PrecedingAI(p) <= Len(messages[PrecedingAI(p)].tool_calls)

\* Two blocks stand in the conversation, the first with two tool calls.
C18_Witness ==
  /\ Cardinality(AIIndices) = 2
  /\ Len(messages[2].tool_calls) = 2
  /\ messages[5].type = "ai"

\* C19: every tool call that reaches the registered tool has exactly one run
\* of the tool, every run of the tool belongs to such a call, and the model
\* was invoked once per assistant message plus once if its invocation failed.
C19_ExactlyOnce ==
  /\ \A k \in AIIndices :
       \A i \in 1..Len(messages[k].tool_calls) :
         Cardinality(RunsOf(tool_log, k, i)) =
           (IF ReachesTool(messages[k].tool_calls[i]) THEN 1 ELSE 0)
  /\ \A j \in 1..Len(tool_log) :
       /\ tool_log[j].msg \in AIIndices
       /\ tool_log[j].pos \in 1..Len(messages[tool_log[j].msg].tool_calls)
       /\ messages[tool_log[j].msg].tool_calls[tool_log[j].pos].id = Some(tool_log[j].id)
  /\ llm_invocations =
       Cardinality(AIIndices) + (IF raised = LlmRaises.exc THEN 1 ELSE 0)

\* Two steps each ran the tool, then the model invocation failed.
C19_Witness ==
  /\ llm_invocations = 3 /\ raised = LlmRaises.exc
  /\ Cardinality(AIIndices) = 2
  /\ \A k \in AIIndices : RunsOf(tool_log, k, 1) # {}

====
